---- MODULE Spec2Model ----
(***************************************************************************)
(* Model of src/src/Router.ts: the Router class (constructor, #patternize,  *)
(* resolve, #resolve), RouterError and stripJoiners, together with the      *)
(* part of the platform's URLPattern that the router relies on.             *)
(*                                                                          *)
(* Strings are sequences of tokens.  "/" is the path separator, "O" and "P" *)
(* stand for two origins ("http://localhost", "http://other"), ":x" and     *)
(* ":id" are named groups of a pattern, "*" is the pattern wildcard, and    *)
(* every other token is a run of ordinary characters.                       *)
(***************************************************************************)
EXTENDS Naturals, Sequences, FiniteSets, TLC

\* ------------------------------------------------------------------ values

Undefined == "undefined"
Null == "null"
Nullish == {Undefined, Null}

Origins == {"O", "P"}
ParamName == [x \in {":x", ":id"} |-> IF x = ":x" THEN "x" ELSE "id"]
IsParam(tok) == tok \in DOMAIN ParamName
Wildcard == "*"
LineTerminator == "\n"

\* ---------------------------------------------------------- stripJoiners

RECURSIVE DropLeading(_)
DropLeading(s) ==
  IF s # <<>> /\ Head(s) = "/" THEN DropLeading(Tail(s)) ELSE s

RECURSIVE DropTrailing(_)
DropTrailing(s) ==
  IF s # <<>> /\ s[Len(s)] = "/" THEN DropTrailing(SubSeq(s, 1, Len(s) - 1)) ELSE s

\* urlJoinersPattern = /^\/*(.*?)\/*$/u : "." matches no line terminator, so
\* the pattern fails on a string that holds one and exec yields null.
\* The result is [ok, part]: ok is FALSE for exec's null.
urlJoinersPattern(path) ==
  IF \E i \in 1..Len(path) : path[i] = LineTerminator
    THEN [ok |-> FALSE, part |-> <<>>]
    ELSE [ok |-> TRUE, part |-> DropTrailing(DropLeading(path))]

\* A value that is a string or undefined: the one-token sequence
\* <<Undefined>> stands for the value undefined (no string holds that token).
UndefinedPart == <<Undefined>>

\* const [, part] = urlJoinersPattern.exec(path) ?? []; return part;
stripJoiners(path) ==
  LET m == urlJoinersPattern(path) IN IF m.ok THEN m.part ELSE UndefinedPart

\* Array.prototype.join('/') over the parents array
RECURSIVE Join(_)
Join(parts) ==
  IF parts = <<>> THEN <<>>
  ELSE IF Len(parts) = 1 THEN parts[1]
  ELSE parts[1] \o <<"/">> \o Join(Tail(parts))

\* ------------------------------------------------------------- URLPattern

\* new URL(input) with no base: only an absolute URL parses; an empty path
\* is serialised as "/".
ParseURL(input) ==
  IF input # <<>> /\ Head(input) \in Origins
    THEN [ok |-> TRUE, origin |-> Head(input),
          pathname |-> IF Tail(input) = <<>> THEN <<"/">> ELSE Tail(input)]
    ELSE [ok |-> FALSE, origin |-> Undefined, pathname |-> <<>>]

\* The pattern syntax of a base URL's path is escaped: its tokens are literal.
EscapeToken(tok) ==
  CASE tok = "*" -> "\\*"
    [] tok = ":x" -> "\\:x"
    [] tok = ":id" -> "\\:id"
    [] OTHER -> tok

EscapePattern(s) == [i \in 1..Len(s) |-> EscapeToken(s[i])]

UnescapeToken(tok) ==
  CASE tok = "\\*" -> "*"
    [] tok = "\\:x" -> ":x"
    [] tok = "\\:id" -> ":id"
    [] OTHER -> tok

LastSlash(s) ==
  IF \E i \in 1..Len(s) : s[i] = "/"
    THEN CHOOSE i \in 1..Len(s) : s[i] = "/" /\ \A j \in (i + 1)..Len(s) : s[j] # "/"
    ELSE 0

\* The directory of a URL path: the path up to and including its last "/".
DirOf(urlPath) == SubSeq(urlPath, 1, LastSlash(urlPath))

\* new URLPattern(input, baseURL): the input holds a pathname pattern only.  A
\* pathname that is not absolute is appended to the directory of the base URL's
\* path, as a relative URL reference is.
BaseJoinedPathname(input, basePath) ==
  IF input # <<>> /\ Head(input) = "/"
    THEN input
    ELSE EscapePattern(DirOf(basePath)) \o input

NewURLPattern(input, baseURL) ==
  LET b == ParseURL(baseURL) IN
  [origin |-> b.origin, pathname |-> BaseJoinedPathname(input, b.pathname)]

NoMatch == [ok |-> FALSE, groups |-> {}]

NoResult == [matched |-> FALSE, pathname |-> [groups |-> {}], search |-> [groups |-> {}]]

\* Match of a pathname pattern against a URL path; groups are <<name, value>>
\* pairs.  A named group takes one segment, the wildcard takes the rest greedily.
RECURSIVE MatchPath(_, _)
MatchPath(pt, ut) ==
  IF pt = <<>> THEN (IF ut = <<>> THEN [ok |-> TRUE, groups |-> {}] ELSE NoMatch)
  ELSE IF Head(pt) = Wildcard THEN
    LET ks == {k \in 0..Len(ut) : MatchPath(Tail(pt), SubSeq(ut, k + 1, Len(ut))).ok} IN
    IF ks = {} THEN NoMatch
    ELSE LET k == CHOOSE m \in ks : \A n \in ks : n <= m
             r == MatchPath(Tail(pt), SubSeq(ut, k + 1, Len(ut)))
         IN [ok |-> TRUE, groups |-> r.groups \cup {<<"0", SubSeq(ut, 1, k)>>}]
  ELSE IF ut = <<>> THEN NoMatch
  ELSE IF IsParam(Head(pt)) THEN
    IF Head(ut) = "/" THEN NoMatch
    ELSE LET r == MatchPath(Tail(pt), Tail(ut)) IN
         IF r.ok THEN [ok |-> TRUE, groups |-> r.groups \cup {<<ParamName[Head(pt)], <<Head(ut)>>>>}]
         ELSE NoMatch
  ELSE IF UnescapeToken(Head(pt)) = Head(ut) THEN MatchPath(Tail(pt), Tail(ut))
  ELSE NoMatch

\* The groups of the search component.  The router's patterns give no search
\* component, and the candidate URLs of this model carry no query: a platform
\* that inherits the base URL's (empty) search has no group there, one that
\* defaults the component to the wildcard has the group "0" holding "".
SearchGroups(wildcardSearch) == IF wildcardSearch THEN {<<"0", <<>>>>} ELSE {}

\* URLPattern.prototype.exec(input): null (matched = FALSE) when the input is
\* no URL or a component does not match, else the groups of each component.
Exec(pattern, input, wildcardSearch) ==
  LET u == ParseURL(input)
      m == MatchPath(pattern.pathname, u.pathname)
  IN IF u.ok /\ u.origin = pattern.origin /\ m.ok
       THEN [matched |-> TRUE,
             pathname |-> [groups |-> m.groups],
             search |-> [groups |-> SearchGroups(wildcardSearch)]]
       ELSE NoResult

\* ------------------------------------------------------------ route trees

\* Route.children is absent, null or an array of routes (possibly empty).
Absent == [kind |-> "absent", items |-> <<>>]
NullChildren == [kind |-> "null", items |-> <<>>]
Array(items) == [kind |-> "array", items |-> items]

\* A Route: its path, its children and whether it defines an action.  Routes
\* are objects compared by identity: a route is named by its index in the
\* table of the tree's nodes.
Route(path, children, action) == [path |-> path, children |-> children, action |-> action]

LeafChildren == {Absent, NullChildren, Array(<<>>)}

\* { path: "/", children: [{ path: "foo", action }, { path: "foo/:x", action }] },
\* handed to the constructor as a single route
TreeRootSlash ==
  [isArray |-> FALSE, roots |-> <<1>>,
   nodes |-> <<Route(<<"/">>, Array(<<2, 3>>), FALSE),
               Route(<<"foo">>, Absent, TRUE),
               Route(<<"foo", "/", ":x">>, Absent, TRUE)>>]

\* { path: "/base", children: [{ path: "sub", action }] }
TreeBaseSub ==
  [isArray |-> FALSE, roots |-> <<1>>,
   nodes |-> <<Route(<<"/", "base">>, Array(<<2>>), FALSE),
               Route(<<"sub">>, Absent, TRUE)>>]

\* [{ path: "/base/*", children: [{ path: ":x" }, { path: "sub", action }] },
\*  { path: "/base/sub", action }]
TreeWild(a1, a3, c3) ==
  [isArray |-> TRUE, roots |-> <<1, 2>>,
   nodes |-> <<Route(<<"/", "base", "/", "*">>, Array(<<3, 4>>), a1),
               Route(<<"/", "base", "/", "sub">>, Absent, TRUE),
               Route(<<":x">>, c3, a3),
               Route(<<"sub">>, Absent, TRUE)>>]

\* [{ path: "/users/:id", action }, { path: "/users/42", action }, { path: "/foo/" }]
TreeUsers(c3) ==
  [isArray |-> TRUE, roots |-> <<1, 2, 3>>,
   nodes |-> <<Route(<<"/", "users", "/", ":id">>, Absent, TRUE),
               Route(<<"/", "users", "/", "42">>, Absent, TRUE),
               Route(<<"/", "foo", "/">>, c3, FALSE)>>]

\* { path: "/*", children: [{ path: "*", children: [{ path: "x" }] }] }
TreeDeep(a1, a2, a3) ==
  [isArray |-> FALSE, roots |-> <<1>>,
   nodes |-> <<Route(<<"/", "*">>, Array(<<2>>), a1),
               Route(<<"*">>, Array(<<3>>), a2),
               Route(<<"x">>, Absent, a3)>>]

\* new Router([])
TreeEmpty == [isArray |-> TRUE, roots |-> <<>>, nodes |-> <<>>]

SmallTrees == {TreeRootSlash, TreeBaseSub, TreeEmpty}

Trees ==
  SmallTrees
    \cup {TreeWild(a1, a3, c3) : a1 \in BOOLEAN, a3 \in BOOLEAN, c3 \in LeafChildren}
    \cup {TreeUsers(c3) : c3 \in LeafChildren}
    \cup {TreeDeep(TRUE, TRUE, FALSE), TreeDeep(TRUE, FALSE, TRUE),
          TreeDeep(FALSE, TRUE, TRUE), TreeDeep(FALSE, FALSE, TRUE)}

\* options.baseURL: the origin, or a base URL with a path
OriginBase == <<"O">>
AppBase == <<"O", "/", "app", "/">>

\* the (routes, baseURL) pairs a Router is constructed from
Routers ==
  {<<t, OriginBase>> : t \in Trees} \cup {<<t, AppBase>> : t \in SmallTrees \cup {TreeUsers(Absent)}}

\* options.errorHandler: absent or configured
ErrorHandlers == {"none", "configured"}

\* what a configured errorHandler does: it returns a fallback value, or it
\* throws the error it was given again
HandlerBehaviours == {"fallback", "rethrow"}

\* the candidate paths handed to resolve
Paths ==
  { <<"O">>, <<"O", "/", "foo">>, <<"O", "/", "foo", "/", "7">>, <<"O", "/", "bar">>,
    <<"O", "/", "base", "/", "sub">>, <<"O", "/", "sub">>, <<"O", "/", "base">>,
    <<"O", "/", "users", "/", "42">>, <<"O", "/", "*", "/", "x">>,
    <<"O", "/", "app", "/", "foo">>, <<"/", "foo">>, <<"P", "/", "foo">> }

Contexts == {"ctx1", "ctx2"}

\* ------------------------------------------------------------------ state

VARIABLES
  routes,     \* #routes: the root list, and the table of the tree's route objects
  patterns,   \* #patterns: route -> URLPattern
  options,    \* #options: baseURL and errorHandler
  platform,   \* the URLPattern implementation: whether a missing search is "*"
  call,       \* one resolve(path, context) call: frames, outcome, history
  call2,      \* a second resolve call on the same router, in flight with the first
  nav,        \* the navigation listeners, the history state and the popstate events
  strip       \* stripJoiners applied to a path on its own

vars == <<routes, patterns, options, platform, call, call2, nav, strip>>

\* the router's fields and the platform it runs on
router == <<routes, patterns, options, platform>>

\* ------------------------------------------------------------ construction

\* a test that takes a list of one child for empty
HasLengthOverOne(children) == children.kind = "array" /\ Len(children.items) > 1

\* route.children?.length
HasLength(children) == children.kind = "array" /\ Len(children.items) > 0

EmptyMap == [n \in {} |-> 0]

\* #patternize(routes, parents): the patterns it sets, over the node table nd
RECURSIVE patternize(_, _, _)
patternize(nd, list, parents) ==
  IF list = <<>> THEN EmptyMap
  ELSE
    LET route == Head(list)
        base == Join(parents)
        path == stripJoiners(nd[route].path)
        sub == IF HasLength(nd[route].children)
                 THEN patternize(nd, nd[route].children.items, Append(parents, path))
                 ELSE EmptyMap
    IN (route :> NewURLPattern(path, base)) @@ sub @@ patternize(nd, Tail(list), parents)

\* Array.isArray(routes) ? routes : [routes]  (a single route is held in roots[1])
AsArray(tree) == IF tree.isArray THEN tree.roots ELSE <<tree.roots[1]>>

\* constructor(routes, options)
Constructor(tree, opts) ==
  /\ routes = [roots |-> AsArray(tree), nodes |-> tree.nodes]
  /\ options = opts
  /\ patterns = patternize(tree.nodes, AsArray(tree), <<stripJoiners(opts.baseURL)>>)

\* ------------------------------------------------------- errors, outcomes

\* new RouterError(404, `Page ${String(path)} is not found`): page is the path
\* the message names.
RouterError(status, page) == [type |-> "RouterError", status |-> status, page |-> page]

\* a not-found error whose message leaves the path out
NotFoundErrorNoPath(path) == RouterError(404, <<>>)

NotFoundError(path) == RouterError(404, path)

\* failures an action may raise: an ordinary Error, or a RouterError of its own
PlainError == [type |-> "Error", status |-> 0, page |-> <<>>]
Forbidden == RouterError(403, <<>>)
ActionErrors == {PlainError, Forbidden}

NoError == [type |-> "none", status |-> 0, page |-> <<>>]

\* how a promise settled
Ok(v) == [kind |-> "ok", val |-> v, err |-> NoError]
Fail(e) == [kind |-> "fail", val |-> Undefined, err |-> e]
Unsettled == [kind |-> "none", val |-> Undefined, err |-> NoError]

\* ------------------------------------------------------ what an action does

MaxNextCalls == 2

\* An action is the caller's code; within one call it behaves the same each
\* time it is invoked.  It returns a value or throws, at once or
\* through a promise (async); or it calls next() `times` times, awaiting each
\* call, and then returns the last result or a value of its own (own), a
\* failure of next() being passed on or replaced by a fallback value (catch).
\* Or it returns a promise that never settles ("never").
Behaviour(kind, async, val, err, times, catch, own) ==
  [kind |-> kind, async |-> async, val |-> val, err |-> err,
   times |-> times, catch |-> catch, own |-> own]

NoBehaviour == Behaviour("none", FALSE, Undefined, NoError, 0, FALSE, FALSE)

Behaviours ==
  {Behaviour("return", a, v, NoError, 0, FALSE, FALSE) :
     a \in BOOLEAN, v \in {"v1", Undefined, Null}}
    \cup {Behaviour("throw", a, Undefined, e, 0, FALSE, FALSE) :
            a \in BOOLEAN, e \in ActionErrors}
    \cup {Behaviour("next", TRUE, "v1", NoError, t, c, o) :
            t \in 1..MaxNextCalls, c \in BOOLEAN, o \in BOOLEAN}
    \cup {Behaviour("never", TRUE, Undefined, NoError, 0, FALSE, FALSE)}

\* ------------------------------------------------------------- call state

\* One invocation of #resolve(path, routes, parent, context): the list it
\* scans, its position in the for loop, and where it stands:
\*   "scan"     in the for loop, about to test routes[idx]
\*   "pending"  the action returned a promise that has not settled
\*   "next"     the action is about to call next()
\*   "await"    the action awaits the #resolve its next() started
\*   "implicit" the frame returned next() itself and awaits its #resolve
\*   "ret"      settled with res
\* got is how the latest next() of the frame's action settled.
Frame(id, path, list, parent, context) ==
  [id |-> id, path |-> path, routes |-> list, parent |-> parent, context |-> context,
   idx |-> 1, phase |-> "scan", beh |-> NoBehaviour, done |-> 0, got |-> Unsettled,
   res |-> Unsettled]

\* history of a call: what was tested, invoked and raised, in order
Event(ev, scan, node) ==
  [ev |-> ev, scan |-> scan, node |-> node, parent |-> 0, path |-> <<>>,
   context |-> Undefined, params |-> {}, err |-> NoError, hit |-> FALSE,
   by |-> "", to |-> 0, beh |-> NoBehaviour, out |-> Unsettled]

IdleCall ==
  [st |-> "idle", path |-> <<>>, context |-> Undefined, stack |-> <<>>,
   inner |-> Unsettled, out |-> Unsettled, scans |-> 0, log |-> <<>>, behs |-> <<>>]

Top(c) == c.stack[Len(c.stack)]

SetTop(c, f) == [c EXCEPT !.stack[Len(c.stack)] = f]

Logged(c, e) == [c EXCEPT !.log = Append(c.log, e)]

\* --------------------------------------------------------------- #resolve

\* this.#patterns.get(route)!.exec(path)
ExecRoute(route, path) == Exec(patterns[route], path, platform.wildcardSearch)

\* params: result.search.groups
ActionParams(result) == result.search.groups

\* route.children ? ... : undefined  (an array, even an empty one, is truthy)
Truthy(children) == children.kind = "array"

\* a loop that visits the routes last to first
ScanOrderReversed(list) == [i \in 1..Len(list) |-> list[Len(list) + 1 - i]]

\* for (const route of routes): the routes in the order the loop visits them
ScanOrder(list) == list

\* The action's code resumes after a next() of its own settled with outcome.
AfterNext(f, outcome) ==
  LET n == f.done + 1 IN
  IF outcome.kind = "fail"
    THEN [f EXCEPT !.done = n, !.got = outcome, !.phase = "ret",
                   !.res = IF f.beh.catch THEN Ok("fallback") ELSE outcome]
  ELSE IF n < f.beh.times
    THEN [f EXCEPT !.done = n, !.got = outcome, !.phase = "next"]
  ELSE [f EXCEPT !.done = n, !.got = outcome, !.phase = "ret",
                 !.res = IF f.beh.own THEN Ok(f.beh.val) ELSE outcome]

\* a resolver that, when the next() it returned fails, goes on to the route's
\* later siblings
ReturnedNextBacktracks(f, outcome) ==
  IF outcome.kind = "fail"
    THEN [f EXCEPT !.got = outcome, !.idx = f.idx + 1, !.phase = "scan"]
    ELSE [f EXCEPT !.got = outcome, !.phase = "ret", !.res = outcome]

\* return (route.action?.(...) ?? next()): the frame that returned next()
\* itself settles as that next() does
ReturnedNext(f, outcome) == [f EXCEPT !.got = outcome, !.phase = "ret", !.res = outcome]

\* a next() that leaves the context out of the nested #resolve
NextArgumentsNoContext(f, route) ==
  [path |-> f.path, routes |-> routes.nodes[route].children.items,
   parent |-> route, context |-> Undefined]

\* a next() that reads path and context from where the router's other call
\* left them
NextArgumentsShared(f, route) ==
  [path |-> call2.path, routes |-> routes.nodes[route].children.items,
   parent |-> route, context |-> call2.context]

\* this.#resolve(path, route.children, route, context): what next() passes on
\* from the frame f whose route matched
NextArguments(f, route) ==
  [path |-> f.path, routes |-> routes.nodes[route].children.items,
   parent |-> route, context |-> f.context]

\* a next() that keeps its first result and hands it out again when the
\* action calls it a second time
CallNextMemoized(c, route, by) ==
  LET top == Top(c)
      children == routes.nodes[route].children
      id == c.scans + 1
  IN IF Truthy(children) /\ top.done = 0
       THEN LET waiting == [top EXCEPT !.phase = IF by = "action" THEN "await" ELSE "implicit"]
                e == [Event("next", top.id, route) EXCEPT !.by = by, !.to = id]
            IN [Logged(c, e) EXCEPT
                  !.stack = Append(SubSeq(c.stack, 1, Len(c.stack) - 1), waiting)
                              \o <<Frame(id, top.path, ScanOrder(children.items),
                                         route, top.context)>>,
                  !.scans = id]
       ELSE LET e == [Event("next", top.id, route) EXCEPT !.by = by, !.to = 0]
                kept == IF top.done = 0 THEN Ok(Undefined) ELSE top.got
                settled == IF by = "action"
                             THEN AfterNext(top, kept)
                             ELSE ReturnedNext(top, kept)
            IN SetTop(Logged(c, e), settled)

\* next = async () => (route.children ? this.#resolve(path, route.children,
\* route, context) : undefined), called by the action or by the frame itself
\* (by = "action" | "resolver")
CallNext(c, route, by) ==
  LET top == Top(c)
      children == routes.nodes[route].children
      id == c.scans + 1
  IN IF Truthy(children)
       THEN LET waiting == [top EXCEPT !.phase = IF by = "action" THEN "await" ELSE "implicit"]
                e == [Event("next", top.id, route) EXCEPT !.by = by, !.to = id]
                args == NextArguments(top, route)
            IN [Logged(c, e) EXCEPT
                  !.stack = Append(SubSeq(c.stack, 1, Len(c.stack) - 1), waiting)
                              \o <<Frame(id, args.path, ScanOrder(args.routes),
                                         args.parent, args.context)>>,
                  !.scans = id]
       ELSE LET e == [Event("next", top.id, route) EXCEPT !.by = by, !.to = 0]
                settled == IF by = "action"
                             THEN AfterNext(top, Ok(Undefined))
                             ELSE ReturnedNext(top, Ok(Undefined))
            IN SetTop(Logged(c, e), settled)

\* a resolver that takes an action's promise for settled the moment the
\* action returns it
InvokeActionNoWait(c, route, result, beh) ==
  LET top == Top(c)
      e == [Event("invoke", top.id, route) EXCEPT
              !.parent = top.parent, !.path = top.path, !.context = top.context,
              !.params = ActionParams(result), !.beh = beh]
      c1 == [SetTop(Logged(c, e), [top EXCEPT !.beh = beh]) EXCEPT !.behs[route] = beh]
  IN CASE beh.kind = "next" -> SetTop(c1, [Top(c1) EXCEPT !.phase = "next"])
       [] beh.kind = "throw" ->
            SetTop(c1, [Top(c1) EXCEPT !.phase = "ret", !.res = Fail(beh.err)])
       [] OTHER ->
            IF beh.val \in Nullish /\ ~beh.async
              THEN CallNext(c1, route, "resolver")
              ELSE SetTop(c1, [Top(c1) EXCEPT !.phase = "ret", !.res = Ok(beh.val)])

\* route.action?.({context, next, params, parent, path, route, router}) ?? next()
\* for a route that defines an action, which behaves as beh
InvokeAction(c, route, result, beh) ==
  LET top == Top(c)
      e == [Event("invoke", top.id, route) EXCEPT
              !.parent = top.parent, !.path = top.path, !.context = top.context,
              !.params = ActionParams(result), !.beh = beh]
      c1 == [SetTop(Logged(c, e), [top EXCEPT !.beh = beh]) EXCEPT !.behs[route] = beh]
  IN CASE beh.kind = "next" -> SetTop(c1, [Top(c1) EXCEPT !.phase = "next"])
       [] beh.async -> SetTop(c1, [Top(c1) EXCEPT !.phase = "pending"])
       [] beh.kind = "throw" ->
            SetTop(c1, [Top(c1) EXCEPT !.phase = "ret", !.res = Fail(beh.err)])
       [] OTHER ->
            IF beh.val \in Nullish
              THEN CallNext(c1, route, "resolver")
              ELSE SetTop(c1, [Top(c1) EXCEPT !.phase = "ret", !.res = Ok(beh.val)])

Scanning(c) == c.st = "running" /\ Top(c).phase = "scan"

\* the for loop stands at a route / has run through the list
AtRoute(c) == Scanning(c) /\ Top(c).idx <= Len(Top(c).routes)
Current(c) == Top(c).routes[Top(c).idx]

Tested(c, route, hit) == Logged(c, [Event("test", Top(c).id, route) EXCEPT !.hit = hit])

\* Each step of a call is a guard on the call record and the record it leads
\* to, so that it applies to whichever call is in flight.

\* resolve(path, context): return await this.#resolve(path, this.#routes, null, context)
StartResolve(path, context) ==
  [IdleCall EXCEPT !.st = "running", !.path = path, !.context = context,
                   !.stack = <<Frame(1, path, ScanOrder(routes.roots), 0, context)>>,
                   !.scans = 1,
                   !.behs = [n \in DOMAIN routes.nodes |-> NoBehaviour]]

\* the route under test does not match: on to the next sibling
CanScanMiss(c) == AtRoute(c) /\ ~ExecRoute(Current(c), Top(c).path).matched
DoScanMiss(c) ==
  SetTop(Tested(c, Current(c), FALSE), [Top(c) EXCEPT !.idx = Top(c).idx + 1])

\* the loop ends: throw new RouterError(404, `Page ${String(path)} is not found`)
CanThrowNotFound(c) == Scanning(c) /\ Top(c).idx > Len(Top(c).routes)
DoThrowNotFound(c) ==
  LET top == Top(c)
      err == NotFoundError(top.path)
      e == [Event("notfound", top.id, 0) EXCEPT !.err = err, !.parent = top.parent]
  IN SetTop(Logged(c, e), [top EXCEPT !.phase = "ret", !.res = Fail(err)])

\* the route matches and defines no action: undefined ?? next()
CanMatchNoAction(c) ==
  /\ AtRoute(c)
  /\ ExecRoute(Current(c), Top(c).path).matched
  /\ ~routes.nodes[Current(c)].action
DoMatchNoAction(c) == CallNext(Tested(c, Current(c), TRUE), Current(c), "resolver")

\* the route matches and defines an action: the action is invoked
CanMatchAction(c, beh) ==
  /\ AtRoute(c)
  /\ ExecRoute(Current(c), Top(c).path).matched
  /\ routes.nodes[Current(c)].action
  /\ c.behs[Current(c)] \in {NoBehaviour, beh}
DoMatchAction(c, beh) ==
  InvokeAction(Tested(c, Current(c), TRUE), Current(c),
               ExecRoute(Current(c), Top(c).path), beh)

\* the action calls the next() of its RouteContext
CanActionCallNext(c) == c.st = "running" /\ Top(c).phase = "next"
DoActionCallNext(c) == CallNext(c, Current(c), "action")

\* the promise the action returned settles
CanActionSettle(c) ==
  c.st = "running" /\ Top(c).phase = "pending" /\ Top(c).beh.kind # "never"
DoActionSettle(c) ==
  LET top == Top(c)
      res == IF top.beh.kind = "throw" THEN Fail(top.beh.err) ELSE Ok(top.beh.val)
      e == [Event("promise", top.id, Current(c)) EXCEPT !.out = res]
  IN SetTop(Logged(c, e), [top EXCEPT !.phase = "ret", !.res = res])

\* a nested #resolve that hands its RouterError to the errorHandler itself
NextOutcomeHandled(res) ==
  IF res.kind = "fail" /\ res.err.type = "RouterError" /\ options.errorHandler # "none"
    THEN Ok("handled")
    ELSE res

\* how the promise of next() settles, given how the #resolve it started did
NextOutcome(res) == res

\* a nested #resolve settles: its outcome is that of the next() that started it
CanNextSettle(c) == c.st = "running" /\ Len(c.stack) > 1 /\ Top(c).phase = "ret"
DoNextSettle(c) ==
  LET child == Top(c)
      outcome == NextOutcome(child.res)
      rest == SubSeq(c.stack, 1, Len(c.stack) - 1)
      below == rest[Len(rest)]
      resumed == IF below.phase = "await"
                   THEN AfterNext(below, outcome)
                   ELSE ReturnedNext(below, outcome)
      e == [Event("settle", child.id, child.parent) EXCEPT !.out = outcome, !.to = below.id]
  IN [Logged(c, e) EXCEPT !.stack = Append(SubSeq(rest, 1, Len(rest) - 1), resumed)]

Resolve(path, context) ==
  /\ call.st = "idle"
  /\ call' = StartResolve(path, context)
  /\ UNCHANGED <<router, call2, nav, strip>>

ScanMiss ==
  /\ CanScanMiss(call)
  /\ call' = DoScanMiss(call)
  /\ UNCHANGED <<router, call2, nav, strip>>

ThrowNotFound ==
  /\ CanThrowNotFound(call)
  /\ call' = DoThrowNotFound(call)
  /\ UNCHANGED <<router, call2, nav, strip>>

MatchNoAction ==
  /\ CanMatchNoAction(call)
  /\ call' = DoMatchNoAction(call)
  /\ UNCHANGED <<router, call2, nav, strip>>

MatchAction(beh) ==
  /\ CanMatchAction(call, beh)
  /\ call' = DoMatchAction(call, beh)
  /\ UNCHANGED <<router, call2, nav, strip>>

ActionCallsNext ==
  /\ CanActionCallNext(call)
  /\ call' = DoActionCallNext(call)
  /\ UNCHANGED <<router, call2, nav, strip>>

ActionSettles ==
  /\ CanActionSettle(call)
  /\ call' = DoActionSettle(call)
  /\ UNCHANGED <<router, call2, nav, strip>>

NextSettles ==
  /\ CanNextSettle(call)
  /\ call' = DoNextSettle(call)
  /\ UNCHANGED <<router, call2, nav, strip>>

\* ---------------------------------------------------------------- resolve

\* a catch that tests for the wrong error class
HandlesPlainErrors(e) == e.type = "Error" /\ options.errorHandler # "none"

\* a catch that leaves the instanceof test out
HandlesAnyError(e) == options.errorHandler # "none"

\* e instanceof RouterError && this.#options?.errorHandler
Handles(e) == e.type = "RouterError" /\ options.errorHandler # "none"

\* what the errorHandler, behaving as hb, makes of (path, error, context)
HandlerOutcome(hb, e) == IF hb = "fallback" THEN Ok("handled") ELSE Fail(e)

AtTopLevel(c) == c.st = "running" /\ Len(c.stack) = 1 /\ Top(c).phase = "ret"

\* resolve settles with outcome; inner is how the awaited #resolve settled
Settled(c, outcome) ==
  [c EXCEPT !.st = "done", !.inner = Top(c).res, !.out = outcome, !.stack = <<>>]

\* try { return await this.#resolve(...) }
CanResolveReturn(c) == AtTopLevel(c) /\ Top(c).res.kind = "ok"
DoResolveReturn(c) == Settled(c, Top(c).res)

\* catch (e) { if (...) return this.#options.errorHandler(path, e, context) }
CanErrorHandle(c) == AtTopLevel(c) /\ Top(c).res.kind = "fail" /\ Handles(Top(c).res.err)
DoErrorHandle(c, hb) ==
  LET err == Top(c).res.err
      e == [Event("handler", 0, 0) EXCEPT
              !.path = c.path, !.err = err, !.context = c.context, !.by = hb]
  IN Settled(Logged(c, e), HandlerOutcome(hb, err))

\* catch (e) { ... throw e }
CanResolveRethrow(c) == AtTopLevel(c) /\ Top(c).res.kind = "fail" /\ ~Handles(Top(c).res.err)
DoResolveRethrow(c) == Settled(c, Top(c).res)

ResolveReturns ==
  /\ CanResolveReturn(call)
  /\ call' = DoResolveReturn(call)
  /\ UNCHANGED <<router, call2, nav, strip>>

ErrorHandled(hb) ==
  /\ CanErrorHandle(call)
  /\ call' = DoErrorHandle(call, hb)
  /\ UNCHANGED <<router, call2, nav, strip>>

ResolveRethrows ==
  /\ CanResolveRethrow(call)
  /\ call' = DoResolveRethrow(call)
  /\ UNCHANGED <<router, call2, nav, strip>>

\* ----------------------------------------------------- stripJoiners alone

\* stripJoiners applied to a path, and applied again to what it returned.
\* A path is a sequence of tokens: the separator "/", a line terminator, or
\* a run of other characters.

MaxLen == 4

StripTokens == {"/", "foo", LineTerminator}

RECURSIVE SeqsUpTo(_, _)
SeqsUpTo(tokens, n) ==
  IF n = 0 THEN {<<>>}
  ELSE LET shorter == SeqsUpTo(tokens, n - 1)
       IN shorter \cup {Append(p, t) : p \in shorter, t \in tokens}

StripInputs == SeqsUpTo(StripTokens, MaxLen)

\* stripJoiners not applied yet
NotStripped == [st |-> "none", input |-> <<>>, part |-> <<>>, again |-> <<>>]

\* stripJoiners(path)
StripJoiners ==
  /\ strip.st = "input"
  /\ strip' = [strip EXCEPT !.st = "stripped", !.part = stripJoiners(strip.input)]
  /\ UNCHANGED <<router, call, call2, nav>>

\* stripJoiners(stripJoiners(path)), where the first call returned a string
StripAgain ==
  /\ strip.st = "stripped"
  /\ strip.part # UndefinedPart
  /\ strip' = [strip EXCEPT !.st = "again", !.again = stripJoiners(strip.part)]
  /\ UNCHANGED <<router, call, call2, nav>>


\* ------------------------------------------------------------- navigation

\* The navigation layer: addNavigationListener(listener, options) registers
\* listener for the popstate events of the window; at each event a registered
\* listener is called with the path and the context of history.state.  The
\* options are those of addEventListener: once, signal.

Listeners == {1, 2}

MaxPopstates == 3

\* history.state as pushState leaves it: { path, context }
HistoryStates ==
  {[path |-> <<"O", "/", "foo">>, context |-> "ctx1"],
   [path |-> <<"O", "/", "bar">>, context |-> "ctx2"]}

\* A listener: st is "none" (never added), "on" (registered) or "off"
\* (removed); from and until are the numbers of popstate events dispatched
\* when it was added and when its signal was aborted.
NoListener == [st |-> "none", once |-> FALSE, signal |-> "none", from |-> 0, until |-> 0]

\* no listener added, no popstate event dispatched yet
NoNavigation ==
  [state |-> [path |-> <<"O">>, context |-> Undefined],
   listeners |-> [l \in Listeners |-> NoListener],
   events |-> 0, popped |-> <<>>, calls |-> <<>>]

\* a listener that stays registered after a call, whatever its options
DispatchedKept(r) == r

\* the listener after the event was dispatched to it: once removes it
Dispatched(r) == IF r.once THEN [r EXCEPT !.st = "off"] ELSE r

\* the call a popstate event makes to the listener l
NavigationCall(l) ==
  [listener |-> l, event |-> nav.events + 1,
   path |-> nav.state.path, context |-> nav.state.context]

\* addNavigationListener(listener, { once, signal })
AddNavigationListener(l, once, signal) ==
  /\ nav.listeners[l].st = "none"
  /\ nav' = [nav EXCEPT !.listeners[l] =
               [NoListener EXCEPT !.st = "on", !.once = once,
                                  !.signal = IF signal THEN "live" ELSE "none",
                                  !.from = nav.events]]
  /\ UNCHANGED <<router, call, call2, strip>>

\* history.pushState({ path, context }, "", path)
PushState(h) ==
  /\ nav.state # h
  /\ nav' = [nav EXCEPT !.state = h]
  /\ UNCHANGED <<router, call, call2, strip>>

\* dispatchEvent(new PopStateEvent("popstate")): every registered listener
\* is called, in the order of registration slots
Popstate ==
  /\ nav.events < MaxPopstates
  /\ LET On(c) == nav.listeners[c.listener].st = "on"
         made == SelectSeq([l \in Listeners |-> NavigationCall(l)], On)
     IN nav' = [nav EXCEPT
                  !.events = nav.events + 1,
                  !.popped = Append(nav.popped, nav.state),
                  !.calls = nav.calls \o made,
                  !.listeners = [l \in Listeners |->
                                   IF nav.listeners[l].st = "on"
                                     THEN Dispatched(nav.listeners[l])
                                     ELSE nav.listeners[l]]]
  /\ UNCHANGED <<router, call, call2, strip>>

\* controller.abort(): the listener registered with the signal is removed
Abort(l) ==
  /\ nav.listeners[l].signal = "live"
  /\ nav' = [nav EXCEPT !.listeners[l] =
               [nav.listeners[l] EXCEPT !.signal = "aborted", !.until = nav.events,
                                        !.st = "off"]]
  /\ UNCHANGED <<router, call, call2, strip>>

NavInit ==
  /\ Constructor(TreeEmpty, [baseURL |-> OriginBase, errorHandler |-> "none"])
  /\ platform = [wildcardSearch |-> FALSE]
  /\ call = IdleCall
  /\ call2 = IdleCall
  /\ nav \in {[NoNavigation EXCEPT !.state = h] : h \in HistoryStates}
  /\ strip = NotStripped

NavNext ==
  \/ \E l \in Listeners, once \in BOOLEAN, signal \in BOOLEAN :
       AddNavigationListener(l, once, signal)
  \/ \E h \in HistoryStates : PushState(h)
  \/ Popstate
  \/ \E l \in Listeners : Abort(l)

NavSpec == NavInit /\ [][NavNext]_vars

\* stripJoiners on its own, over every path of up to MaxLen tokens
StripInit ==
  /\ Constructor(TreeEmpty, [baseURL |-> OriginBase, errorHandler |-> "none"])
  /\ platform = [wildcardSearch |-> FALSE]
  /\ call = IdleCall
  /\ call2 = IdleCall
  /\ nav = NoNavigation
  /\ strip \in {[NotStripped EXCEPT !.st = "input", !.input = p] : p \in StripInputs}

StripNext == StripJoiners \/ StripAgain

StripSpec == StripInit /\ [][StripNext]_vars


\* ---------------------------------------------------------- specification

Init ==
  /\ \E r \in Routers, handler \in ErrorHandlers :
       Constructor(r[1], [baseURL |-> r[2], errorHandler |-> handler])
  /\ platform \in [wildcardSearch : BOOLEAN]
  /\ call = IdleCall
  /\ call2 = IdleCall
  /\ nav = NoNavigation
  /\ strip = NotStripped

Next ==
  \/ \E path \in Paths, context \in Contexts : Resolve(path, context)
  \/ ScanMiss
  \/ ThrowNotFound
  \/ MatchNoAction
  \/ \E beh \in Behaviours : MatchAction(beh)
  \/ ActionCallsNext
  \/ ActionSettles
  \/ NextSettles
  \/ ResolveReturns
  \/ \E hb \in HandlerBehaviours : ErrorHandled(hb)
  \/ ResolveRethrows

Spec == Init /\ [][Next]_vars

\* ------------------------------------------------------------ scheduling

\* The steps the event loop takes by itself once resolve was called: every
\* continuation whose awaited promise has settled is run, and the promise of
\* an action that settles at all does settle.  An action whose promise never
\* settles enables no step.
Progress ==
  \/ ScanMiss
  \/ ThrowNotFound
  \/ MatchNoAction
  \/ \E beh \in Behaviours : MatchAction(beh)
  \/ ActionCallsNext
  \/ ActionSettles
  \/ NextSettles
  \/ ResolveReturns
  \/ \E hb \in HandlerBehaviours : ErrorHandled(hb)
  \/ ResolveRethrows

LiveRouters ==
  {<<TreeWild(TRUE, TRUE, Array(<<>>)), OriginBase>>, <<TreeUsers(Array(<<>>)), OriginBase>>}

LiveInit ==
  /\ \E r \in LiveRouters, handler \in ErrorHandlers :
       Constructor(r[1], [baseURL |-> r[2], errorHandler |-> handler])
  /\ platform \in [wildcardSearch : BOOLEAN]
  /\ call = IdleCall
  /\ call2 = IdleCall
  /\ nav = NoNavigation
  /\ strip = NotStripped

LiveSpec == LiveInit /\ [][Next]_vars /\ WF_vars(Progress)

\* ------------------------------------------------- two calls in flight

\* Two top-level resolve calls on one Router.  Each call advances at its own
\* suspension points (every await of #resolve and of an action's promise), so
\* the steps of the two interleave in any order.
ConcRouters == {<<TreeWild(FALSE, TRUE, Absent), OriginBase>>}

ConcPaths == {<<"O", "/", "base", "/", "sub">>, <<"O", "/", "base", "/", "7">>, <<"O", "/", "bar">>}

\* each caller hands in a context of its own
FirstContexts == {"ctx1"}
SecondContexts == {"ctx2"}

ConcInit ==
  /\ \E r \in ConcRouters, handler \in ErrorHandlers :
       Constructor(r[1], [baseURL |-> r[2], errorHandler |-> handler])
  /\ platform \in [wildcardSearch : BOOLEAN]
  /\ call = IdleCall
  /\ call2 = IdleCall
  /\ nav = NoNavigation
  /\ strip = NotStripped

\* one step of the call c, leading to d
Step(c, d) ==
  \/ CanScanMiss(c) /\ d = DoScanMiss(c)
  \/ CanThrowNotFound(c) /\ d = DoThrowNotFound(c)
  \/ CanMatchNoAction(c) /\ d = DoMatchNoAction(c)
  \/ \E beh \in Behaviours : CanMatchAction(c, beh) /\ d = DoMatchAction(c, beh)
  \/ CanActionCallNext(c) /\ d = DoActionCallNext(c)
  \/ CanActionSettle(c) /\ d = DoActionSettle(c)
  \/ CanNextSettle(c) /\ d = DoNextSettle(c)
  \/ CanResolveReturn(c) /\ d = DoResolveReturn(c)
  \/ \E hb \in HandlerBehaviours : CanErrorHandle(c) /\ d = DoErrorHandle(c, hb)
  \/ CanResolveRethrow(c) /\ d = DoResolveRethrow(c)

FirstResolve(path, context) ==
  /\ call.st = "idle"
  /\ call' = StartResolve(path, context)
  /\ UNCHANGED <<router, call2, nav, strip>>

FirstSteps == Step(call, call') /\ UNCHANGED <<router, call2, nav, strip>>

SecondResolve(path, context) ==
  /\ call2.st = "idle"
  /\ call2' = StartResolve(path, context)
  /\ UNCHANGED <<router, call, nav, strip>>

SecondSteps == Step(call2, call2') /\ UNCHANGED <<router, call, nav, strip>>

ConcNext ==
  \/ \E path \in ConcPaths, context \in FirstContexts : FirstResolve(path, context)
  \/ FirstSteps
  \/ \E path \in ConcPaths, context \in SecondContexts : SecondResolve(path, context)
  \/ SecondSteps

ConcSpec == ConcInit /\ [][ConcNext]_vars

\* The same call run alone: the one step it takes next when its actions
\* behave as c.behs records and the errorHandler as hb; c itself when it has
\* settled or meets an action c.behs does not cover.
AloneStep(c, hb) ==
  IF c.st # "running" THEN c
  ELSE IF CanScanMiss(c) THEN DoScanMiss(c)
  ELSE IF CanThrowNotFound(c) THEN DoThrowNotFound(c)
  ELSE IF CanMatchNoAction(c) THEN DoMatchNoAction(c)
  ELSE IF AtRoute(c)
    THEN IF c.behs[Current(c)] = NoBehaviour THEN c
         ELSE DoMatchAction(c, c.behs[Current(c)])
  ELSE IF CanActionCallNext(c) THEN DoActionCallNext(c)
  ELSE IF CanActionSettle(c) THEN DoActionSettle(c)
  ELSE IF CanNextSettle(c) THEN DoNextSettle(c)
  ELSE IF CanResolveReturn(c) THEN DoResolveReturn(c)
  ELSE IF CanErrorHandle(c) THEN DoErrorHandle(c, hb)
  ELSE IF CanResolveRethrow(c) THEN DoResolveRethrow(c)
  ELSE c

\* the call c, run alone, comes to stand exactly as target stands
RECURSIVE AloneReaches(_, _, _)
AloneReaches(c, target, hb) ==
  IF c = target THEN TRUE
  ELSE LET d == AloneStep(c, hb)
       IN IF d = c THEN FALSE ELSE AloneReaches(d, target, hb)

\* how the errorHandler behaved in the call c, if it ran
HandlerIn(c) ==
  IF \E i \in DOMAIN c.log : c.log[i].ev = "handler"
    THEN c.log[CHOOSE i \in DOMAIN c.log : c.log[i].ev = "handler"].by
    ELSE "fallback"

\* c stands where the same resolve(path, context), with the same actions,
\* stands at some point of running alone: the same tests, the same actions
\* invoked with the same path, params, parent and context, the same outcome
AsAlone(c) ==
  \/ c.st = "idle"
  \/ AloneReaches([StartResolve(c.path, c.context) EXCEPT !.behs = c.behs], c, HandlerIn(c))

\* ------------------------------------------------- history of the call

Log == call.log

Events(kind) == {i \in DOMAIN Log : Log[i].ev = kind}

Done == call.st = "done"

\* the route's matcher accepts the path
Accepts(route, path) == Exec(patterns[route], path, platform.wildcardSearch).matched

NoneAccepts(list, path) == \A k \in 1..Len(list) : ~Accepts(list[k], path)

\* the position of the first route of the list whose matcher accepts the path, or 0
FirstMatch(list, path) ==
  IF NoneAccepts(list, path) THEN 0
  ELSE CHOOSE k \in 1..Len(list) :
         Accepts(list[k], path) /\ \A j \in 1..(k - 1) : ~Accepts(list[j], path)

Pos(list, route) == CHOOSE k \in 1..Len(list) : list[k] = route

Elements(list) == {list[k] : k \in 1..Len(list)}

ChildrenOf(route) == Elements(routes.nodes[route].children.items)

\* the sibling list, as declared, that scan s goes through: the root list for
\* the first scan, else the children of the route whose next() started it
ScanList(s) ==
  IF s = 1 THEN routes.roots
  ELSE LET i == CHOOSE j \in Events("next") : Log[j].to = s
       IN routes.nodes[Log[i].node].children.items

\* some action that called next() replaces a failure of next() by a value
SomeActionCatches == \E i \in Events("invoke") : Log[i].beh.kind = "next" /\ Log[i].beh.catch

\* --------------------------------------------------------------------- C1

\* C1 (as stated): a #resolve over a sibling list in which no matcher accepts
\* the path fails with RouterError 404 naming the path, and with no
\* errorHandler configured the caller of resolve receives that failure.
C1_NotFoundReachesCaller ==
  /\ \A i \in DOMAIN call.stack :
       LET f == call.stack[i] IN
       NoneAccepts(f.routes, call.path) =>
         /\ f.phase \in {"scan", "ret"}
         /\ f.phase = "ret" => f.res = Fail(RouterError(404, call.path))
  /\ (Done /\ options.errorHandler = "none" /\ Events("notfound") # {})
       => call.out = Fail(RouterError(404, call.path))

\* C1 (amended): a #resolve over a sibling list in which no matcher accepts the
\* path fails with RouterError 404 naming the path; with no errorHandler
\* configured the caller of resolve receives that failure, unless an action
\* that called next() replaced the failure of next() by a value of its own.
C1_NotFound ==
  /\ \A i \in DOMAIN call.stack :
       LET f == call.stack[i] IN
       NoneAccepts(f.routes, call.path) =>
         /\ f.phase \in {"scan", "ret"}
         /\ f.phase = "ret" => f.res = Fail(RouterError(404, call.path))
  /\ \A i \in Events("notfound") : Log[i].err = RouterError(404, call.path)
  /\ (Done /\ options.errorHandler = "none" /\ Events("notfound") # {} /\ ~SomeActionCatches)
       => call.out = Fail(RouterError(404, call.path))

\* a not-found raised in a children list reached the caller of resolve
C1_Witness ==
  /\ Done
  /\ options.errorHandler = "none"
  /\ \E i \in Events("notfound") : Log[i].scan > 1
  /\ call.out = Fail(RouterError(404, call.path))

\* --------------------------------------------------------------------- C2

\* C2: in every scan of a sibling list, no route declared after the first
\* matching one is tested, a test hits exactly at the first matching route,
\* nothing is tested after a hit, and the route whose action is invoked or
\* whose children are entered is the first matching route of the list.
C2_FirstMatchWins ==
  /\ \A i \in DOMAIN Log :
       LET e == Log[i]
           list == ScanList(e.scan)
           fm == FirstMatch(list, call.path)
       IN /\ e.ev = "test" =>
               /\ e.node \in Elements(list)
               /\ fm # 0 => Pos(list, e.node) <= fm
               /\ e.hit <=> (fm # 0 /\ Pos(list, e.node) = fm)
          /\ e.ev \in {"invoke", "next"} => (fm # 0 /\ e.node = list[fm])
  /\ \A i, j \in Events("test") :
       (i < j /\ Log[i].scan = Log[j].scan) => ~Log[i].hit

\* a scan of a list in which two routes match invoked an action
C2_Witness ==
  /\ Done
  /\ \E i \in Events("invoke") :
       LET list == ScanList(Log[i].scan) IN
       Cardinality({k \in 1..Len(list) : Accepts(list[k], call.path)}) >= 2

\* --------------------------------------------------------------------- C3

\* C3: when the action of a matched route never calls next(), no child of that
\* route is tested or has its action invoked in the call, whatever the action
\* returns or raises.
C3_NoNextNoChildTested ==
  \A i \in Events("invoke") :
    Log[i].beh.kind # "next" =>
      \A j \in Events("test") \cup Events("invoke") :
        Log[j].node \notin ChildrenOf(Log[i].node)

\* --------------------------------------------------------------------- C4

\* C4: when the first matching route of the root list defines an action that
\* returns a value, at once or through a promise, resolve settles with exactly
\* that value, null and undefined included.
C4_ActionValueIsResult ==
  \A i \in Events("invoke") :
    (Done /\ Log[i].scan = 1 /\ Log[i].beh.kind = "return")
      => call.out = Ok(Log[i].beh.val)

\* --------------------------------------------------------------------- C5

\* a route with no child to resolve against: children absent, null or empty
Childless(route) == routes.nodes[route].children.items = <<>>

\* C5: when the route resolve matches in the root list has neither an action
\* nor children, resolve settles with undefined, and the errorHandler is not
\* invoked.
C5_BareRouteIsUndefined ==
  \A i \in Events("test") :
    (Done /\ Log[i].scan = 1 /\ Log[i].hit
       /\ ~routes.nodes[Log[i].node].action /\ Childless(Log[i].node))
      => (call.out = Ok(Undefined) /\ Events("handler") = {})

\* --------------------------------------------------------------------- C6

\* C6: with an errorHandler configured, whenever the #resolve that resolve
\* awaits fails with a 404 RouterError, the handler is invoked once, last,
\* with the path, that error and the context given to resolve, and resolve
\* settles as the handler does: with the value the handler returns.
C6_HandlerTakesNotFound ==
  (Done /\ options.errorHandler # "none" /\ call.inner.kind = "fail"
     /\ call.inner.err.type = "RouterError" /\ call.inner.err.status = 404)
    => /\ Events("handler") = {Len(Log)}
       /\ LET h == Log[Len(Log)] IN
          /\ h.path = call.path
          /\ h.err = call.inner.err
          /\ h.context = call.context
          /\ h.by = "fallback" => call.out = Ok("handled")
          /\ h.by = "rethrow" => call.out = Fail(call.inner.err)

\* the handler's value replaced a not-found failure
C6_Witness ==
  /\ Done
  /\ call.inner = Fail(RouterError(404, call.path))
  /\ Events("handler") # {}
  /\ call.out = Ok("handled")

\* --------------------------------------------------------------------- C7

\* C7 (as stated): a failure raised by the action of the route matched in the
\* root list, of whatever error type, is the failure the caller of resolve
\* receives, and the errorHandler is not invoked for it.
C7_ActionFailureUntouched ==
  \A i \in Events("invoke") :
    (Done /\ Log[i].scan = 1 /\ Log[i].beh.kind = "throw")
      => (call.out = Fail(Log[i].beh.err) /\ Events("handler") = {})

\* C7 (amended): the #resolve of a route whose action raises a failure fails
\* with that same failure; a failure that reaches resolve and is not a
\* RouterError is the failure the caller receives, and the errorHandler is not
\* invoked for it; the errorHandler runs only for RouterError failures, the
\* resolver's own not-found or a RouterError an action raised.
C7_NonRouterErrorUntouched ==
  /\ \A i \in DOMAIN call.stack :
       LET f == call.stack[i] IN
       (f.phase = "ret" /\ f.beh.kind = "throw") => f.res = Fail(f.beh.err)
  /\ (Done /\ call.inner.kind = "fail" /\ call.inner.err.type # "RouterError")
       => (call.out = call.inner /\ Events("handler") = {})
  /\ \A i \in Events("handler") :
       /\ Log[i].err.type = "RouterError"
       /\ options.errorHandler # "none"

\* an action's ordinary Error reached the caller past a configured errorHandler
C7_Witness ==
  /\ Done
  /\ options.errorHandler # "none"
  /\ \E i \in Events("invoke") : Log[i].beh.kind = "throw" /\ Log[i].beh.err = PlainError
  /\ call.out = Fail(PlainError)
  /\ Events("handler") = {}

\* --------------------------------------------------------------------- C8

\* the parameter names the route's path declares
DeclaredParams(route) ==
  LET path == routes.nodes[route].path IN
  {ParamName[path[k]] : k \in {j \in 1..Len(path) : IsParam(path[j])}}

\* C8: the params an action receives are the named groups of the route's
\* pathname pattern matched against the path: every parameter the route's path
\* declares is a key of params, and "/users/:id" against "/users/42" gives
\* {id: "42"}.
C8_ParamsAreCaptures ==
  \A i \in Events("invoke") :
    /\ DeclaredParams(Log[i].node) \subseteq {g[1] : g \in Log[i].params}
    /\ (routes.nodes[Log[i].node].path = <<"/", "users", "/", ":id">>
          /\ call.path = <<"O", "/", "users", "/", "42">>)
         => Log[i].params = {<<"id", <<"42">>>>}

\* --------------------------------------------------------------------- C9

\* the route whose children hold the route, or 0 for a route of the root list
ParentOf(route) ==
  IF \E m \in DOMAIN routes.nodes : route \in ChildrenOf(m)
    THEN CHOOSE m \in DOMAIN routes.nodes : route \in ChildrenOf(m)
    ELSE 0

\* the stripped segments of the route's ancestors, outermost first, then its own
RECURSIVE Chain(_)
Chain(route) ==
  IF route = 0 THEN <<>>
  ELSE Append(Chain(ParentOf(route)), stripJoiners(routes.nodes[route].path))

NonEmpty(seg) == seg # <<>>

\* the pathname of the base joined, by single separators, with the non-empty
\* stripped segments of the route's ancestors and its own
CumulativePathname(route) ==
  ParseURL(Join(<<stripJoiners(options.baseURL)>> \o SelectSeq(Chain(route), NonEmpty))).pathname

\* C9: every route's matcher is the base joined with the stripped segments of
\* its ancestors and its own; the matcher of the child "sub" of "/base"
\* accepts base + "/base/sub" and rejects base + "/sub".
C9_MatcherIsCumulative ==
  /\ \A n \in DOMAIN patterns : patterns[n].pathname = CumulativePathname(n)
  /\ (routes.nodes = TreeBaseSub.nodes /\ options.baseURL = OriginBase)
       => /\ Accepts(2, <<"O", "/", "base", "/", "sub">>)
          /\ ~Accepts(2, <<"O", "/", "sub">>)

\* -------------------------------------------------------------------- C10

Invoked(route) == \E i \in Events("invoke") : Log[i].node = route

\* C10: for { path: "/", children: [{ path: "foo", action: a1 },
\* { path: "foo/:x", action: a2 }] } at the origin, resolve of "/foo" invokes
\* a1, resolve of "/foo/7" invokes a2, and resolve of "/bar" fails with 404.
C10_ChildThroughBareParent ==
  (Done /\ routes.nodes = TreeRootSlash.nodes /\ options.baseURL = OriginBase)
    => /\ call.path = <<"O", "/", "foo">> => Invoked(2)
       /\ call.path = <<"O", "/", "foo", "/", "7">> => Invoked(3)
       /\ call.path = <<"O", "/", "bar">> => call.inner = Fail(RouterError(404, call.path))

\* C11: within one resolve(path, context) call, every RouteContext handed to
\* an action, at whatever depth, and the arguments handed to the errorHandler
\* carry the path and the context the caller supplied; no level of the
\* resolution holds another path or context.
C11_PathAndContextUntouched ==
  /\ \A i \in Events("invoke") \cup Events("handler") :
       Log[i].path = call.path /\ Log[i].context = call.context
  /\ \A k \in DOMAIN call.stack :
       call.stack[k].path = call.path /\ call.stack[k].context = call.context

\* a nested action was invoked and the errorHandler took the call's failure
C11_Witness ==
  /\ Done
  /\ call.context = "ctx2"
  /\ \E i \in Events("invoke") : Log[i].scan > 1
  /\ Events("handler") # {}

\* C12: two resolve calls in flight on one Router do not interfere: however
\* their steps interleave, each call tests the same routes, invokes the same
\* actions with the same path, params, parent and context, and settles with
\* the same outcome as the same call run alone.
C12_CallsDoNotInterfere == AsAlone(call) /\ AsAlone(call2)

\* both calls are suspended on an action's promise at once, with different
\* paths and contexts, the first of them below a parent route
C12_Witness ==
  /\ call.st = "running" /\ Top(call).phase = "pending" /\ Len(call.stack) > 1
  /\ call2.st = "running" /\ Top(call2).phase = "pending"
  /\ call.path # call2.path
  /\ call.context # call2.context

\* the listener l was registered when the popstate event number e occurred:
\* added before it, its signal not yet aborted, and, with once, not called yet
Registered(l, e) ==
  LET r == nav.listeners[l]
  IN /\ r.st # "none"
     /\ r.from < e
     /\ r.signal = "aborted" => e <= r.until
     /\ r.once => e = r.from + 1

CallsFor(l, e) ==
  {i \in DOMAIN nav.calls : nav.calls[i].listener = l /\ nav.calls[i].event = e}

\* C13: a navigation listener is called exactly once for each popstate event
\* that occurs while it is registered, with the path and context of the
\* history state at that event; it is not called for an event after its signal
\* was aborted, nor a second time when registered with once.
C13_ListenerCalledWhileRegistered ==
  /\ \A l \in Listeners, e \in 1..nav.events :
       Cardinality(CallsFor(l, e)) = IF Registered(l, e) THEN 1 ELSE 0
  /\ \A i \in DOMAIN nav.calls :
       /\ nav.calls[i].path = nav.popped[nav.calls[i].event].path
       /\ nav.calls[i].context = nav.popped[nav.calls[i].event].context

\* a once listener was called and stayed silent at a later event, and a
\* listener was called, then aborted, and stayed silent at a later event
C13_Witness ==
  /\ \E l \in Listeners :
       /\ nav.listeners[l].once
       /\ CallsFor(l, nav.listeners[l].from + 1) # {}
       /\ nav.events > nav.listeners[l].from + 1
  /\ \E l \in Listeners :
       /\ nav.listeners[l].signal = "aborted"
       /\ ~nav.listeners[l].once
       /\ \E e \in 1..nav.events : CallsFor(l, e) # {}
       /\ nav.events > nav.listeners[l].until

\* the events that raise or pass on a failure
Failures ==
  {i \in DOMAIN Log :
     \/ Log[i].ev = "notfound"
     \/ Log[i].ev = "invoke" /\ Log[i].beh.kind = "throw" /\ ~Log[i].beh.async
     \/ Log[i].ev \in {"promise", "settle"} /\ Log[i].out.kind = "fail"}

\* after a failure no route is tested in any scan that was under way
NoTestAfterFailure ==
  \A i \in Failures, j \in Events("test") :
    i < j => Log[j].scan \notin {Log[k].scan : k \in 1..i}

C15_HandlerOnlyOutermost ==
  /\ Cardinality(Events("handler")) <= 1
  /\ \A h \in Events("handler") :
       /\ Done
       /\ h = Len(Log)
       /\ \A n \in Events("next") :
            Log[n].to # 0 =>
              \E s \in Events("settle") : n < s /\ s < h /\ Log[s].scan = Log[n].to
  /\ \A i \in Events("notfound") :
       Log[i].scan > 1 /\ i < Len(Log) =>
         /\ Log[i + 1].ev = "settle"
         /\ Log[i + 1].scan = Log[i].scan
         /\ Log[i + 1].out = Fail(Log[i].err)
  /\ \A k \in DOMAIN call.stack : call.stack[k].got # Ok("handled")

\* an action awaited a next() that failed with not-found, passed the failure
\* on, and the errorHandler then took it
C15_Witness ==
  /\ Done
  /\ Events("handler") # {}
  /\ \E i \in Events("notfound"), n \in Events("next") :
       /\ Log[n].by = "action"
       /\ Log[n].to = Log[i].scan
       /\ Log[Len(Log)].err = Log[i].err

\* C16: a matched node with no children to resolve against (children absent,
\* null or an empty list) has a next() that yields undefined and never fails
\* with not-found; construction and resolution agree on which nodes have
\* children.
C16_ChildlessNextIsUndefined ==
  /\ \A i \in Events("next") :
       /\ Truthy(routes.nodes[Log[i].node].children)
            <=> HasLength(routes.nodes[Log[i].node].children)
       /\ Childless(Log[i].node) => Log[i].to = 0
  /\ \A i \in Events("notfound") :
       Log[i].parent # 0 => ~Childless(Log[i].parent)

\* the next() of a matched node whose children list is empty failed with
\* not-found
C16_EmptyChildrenNotFound ==
  \E i \in Events("notfound") :
    /\ Log[i].parent # 0
    /\ routes.nodes[Log[i].parent].children = Array(<<>>)

\* the next() calls an action made: those of the action invoked in scan s
\* on node
NextCallsOf(s, node) ==
  {n \in Events("next") : Log[n].by = "action" /\ Log[n].scan = s /\ Log[n].node = node}

\* the scan t has settled, with this outcome
SettleOf(t) == CHOOSE k \in Events("settle") : Log[k].scan = t
HasSettled(t) == \E k \in Events("settle") : Log[k].scan = t

\* C17: next() is repeatable and not memoized: each next() an action calls on
\* a node with children runs a resolution of its own against the children,
\* from the first child on, so the first matching child's action is invoked
\* once per call; the actions behaving the same each time, all these calls
\* settle with the same outcome.
C17_NextRunsEachTime ==
  \A n \in Events("next") :
    (Log[n].by = "action" /\ Truthy(routes.nodes[Log[n].node].children)) =>
      LET t == Log[n].to
          list == routes.nodes[Log[n].node].children.items
          first == FirstMatch(list, call.path)
      IN /\ t # 0
         /\ \A m \in Events("next") : m # n => Log[m].to # t
         /\ \A k \in 1..(n - 1) : Log[k].scan # t
         /\ (n < Len(Log) /\ list # <<>>) =>
              (Log[n + 1].ev = "test" /\ Log[n + 1].scan = t /\ Log[n + 1].node = list[1])
         /\ (HasSettled(t) /\ first # 0 /\ routes.nodes[list[first]].action) =>
              Cardinality({i \in Events("invoke") :
                             Log[i].scan = t /\ Log[i].node = list[first]}) = 1
         /\ \A m \in NextCallsOf(Log[n].scan, Log[n].node) :
              (HasSettled(t) /\ HasSettled(Log[m].to)) =>
                Log[SettleOf(t)].out = Log[SettleOf(Log[m].to)].out

\* an action called next() twice and the first matching child's action was
\* invoked in each of the two resolutions
C17_Witness ==
  /\ Done
  /\ \E n \in Events("next"), m \in Events("next") :
       /\ n < m
       /\ m \in NextCallsOf(Log[n].scan, Log[n].node)
       /\ n \in NextCallsOf(Log[n].scan, Log[n].node)
       /\ \E i \in Events("invoke"), j \in Events("invoke") :
            /\ Log[i].scan = Log[n].to
            /\ Log[j].scan = Log[m].to
            /\ Log[i].node = Log[j].node
            /\ Log[SettleOf(Log[n].to)].out = Log[SettleOf(Log[m].to)].out

\* an action whose promise never settles was invoked
NeverInvoked == \E i \in Events("invoke") : Log[i].beh.kind = "never"

\* every promise an action returned has settled
PromisesSettled ==
  \A i \in Events("invoke") :
    (Log[i].beh.async /\ Log[i].beh.kind \in {"return", "throw", "never"}) =>
      \E j \in Events("promise") :
        i < j /\ Log[j].scan = Log[i].scan /\ Log[j].node = Log[i].node

\* C18: resolve settles exactly when the work it delegates settles: when
\* every invoked action and the errorHandler settle, and next() is called
\* finitely often, a resolve that was called eventually settles; when a
\* matched action's promise never settles, resolve never settles; and resolve
\* does not settle before the promises of the actions it invoked have.
C18_SettlesWithItsActions ==
  /\ (call.st = "running") ~> (Done \/ NeverInvoked)
  /\ [](NeverInvoked => ~Done)
  /\ [](Done => PromisesSettled)

\* resolve settled after a nested action's promise did
C18_Witness ==
  /\ Done
  /\ \E j \in Events("promise"), n \in Events("next") :
       Log[n].by = "action" /\ Log[n].to = Log[j].scan

\* every node of the tree has a matcher, and every route under test has one
EveryNodeHasMatcher ==
  /\ DOMAIN patterns = DOMAIN routes.nodes
  /\ \A i \in Events("test") : Log[i].node \in DOMAIN patterns
  /\ (call.st = "running" /\ AtRoute(call)) => Current(call) \in DOMAIN patterns

\* C19: after construction every node of the tree has exactly one compiled
\* matcher, so every node a resolve tests has one; and no step of resolve,
\* next() or an action adds, replaces or removes a matcher.
C19_MatcherTableFrozen ==
  /\ []EveryNodeHasMatcher
  /\ [][patterns' = patterns]_vars

\* a grandchild of the root list was tested against its matcher
C19_Witness ==
  /\ Done
  /\ \E i \in Events("test") :
       /\ ParentOf(Log[i].node) # 0
       /\ ParentOf(ParentOf(Log[i].node)) # 0
       /\ Log[i].hit

\* s without its leading and trailing runs of "/", found without the pattern:
\* the longest stretch of s that neither begins nor ends with "/"
Outer(s) ==
  LET inner == {<<i, j>> \in (1..Len(s)) \X (1..Len(s)) :
                  /\ i <= j
                  /\ s[i] # "/" /\ s[j] # "/"
                  /\ \A k \in 1..(i - 1) : s[k] = "/"
                  /\ \A k \in (j + 1)..Len(s) : s[k] = "/"}
  IN IF inner = {} THEN <<>>
     ELSE LET ij == CHOOSE x \in inner : TRUE IN SubSeq(s, ij[1], ij[2])

\* C20: stripJoiners removes exactly the leading and trailing runs of "/":
\* "/foo/", "/foo" and "foo" all strip to "foo", an empty or all-separator
\* string strips to the empty string, interior separators are kept, stripping
\* the result again changes nothing, and the result is always a string.
C20_StripsOuterSeparators ==
  (strip.st \in {"stripped", "again"}) =>
    /\ strip.part # UndefinedPart
    /\ strip.part = Outer(strip.input)
    /\ strip.input \in {<<"/", "foo", "/">>, <<"/", "foo">>, <<"foo">>} => strip.part = <<"foo">>
    /\ (\A k \in 1..Len(strip.input) : strip.input[k] = "/") => strip.part = <<>>
    /\ strip.st = "again" => strip.again = strip.part

\* stripJoiners returned undefined
C20_YieldsUndefined == strip.st = "stripped" /\ strip.part = UndefinedPart

====
